---- MODULE Spec2Model ----
(***************************************************************************)
(* Model of the news-bulletin pipeline of search-agent:                    *)
(*   domain/value_objects/date_range.py      DateRange                     *)
(*   domain/entities/news_article.py         NewsArticle                   *)
(*   infrastructure/repositories/tavily_news_repository.py                 *)
(*   application/use_cases/generate_bulletin_use_case.py                   *)
(*   infrastructure/ai/openai_bulletin_writer.py                           *)
(*   domain/value_objects/domain.py, presentation/cli/bulletin_cli.py      *)
(*   app.py                                  NewsBulletinGenerator         *)
(* Python strings are TLA+ strings, handled character by character with    *)
(* Len, SubSeq and \o.  A Python call that may raise is modelled by an     *)
(* operator returning [ok |-> TRUE, val |-> v] or [ok |-> FALSE,           *)
(* exc |-> "<exception class>"].                                           *)
(***************************************************************************)
EXTENDS Integers, Sequences, FiniteSets, TLC

(***************************************************************************)
(* Python values that a JSON search result can carry in a field.           *)
(***************************************************************************)
Str(s)   == [k |-> "str", v |-> s]
PyInt(n) == [k |-> "int", v |-> n]
PyNone   == [k |-> "none"]
Missing  == [k |-> "missing"]

Ok(v)    == [ok |-> TRUE, val |-> v]
Raise(e) == [ok |-> FALSE, exc |-> e]

(***************************************************************************)
(* str methods.                                                            *)
(***************************************************************************)
Whitespace == {" ", "\t", "\n"}

CharAt(s, i) == SubSeq(s, i, i)

\* s[i:] with a 0-based Python index i
From(s, i) == SubSeq(s, i + 1, Len(s))

\* s[:i] with a 0-based Python index i
UpTo(s, i) == SubSeq(s, 1, IF i < Len(s) THEN i ELSE Len(s))

\* str.strip()
SetMin(S) == CHOOSE i \in S : \A j \in S : i <= j
SetMax(S) == CHOOSE i \in S : \A j \in S : j <= i

StripTo(s, keep) == IF keep = {} THEN "" ELSE SubSeq(s, SetMin(keep), SetMax(keep))

Strip(s) == StripTo(s, {i \in 1..Len(s) : CharAt(s, i) \notin Whitespace})

\* str.startswith(p)
StartsWith(s, p) == Len(s) >= Len(p) /\ SubSeq(s, 1, Len(p)) = p

\* str.find(sub, start): 0-based index of the first occurrence at or after
\* start, -1 when there is none
MinOrNone(hits) == IF hits = {} THEN -1 ELSE SetMin(hits)

FindFrom(s, sub, start) ==
    MinOrNone({i \in start..(Len(s) - Len(sub)) :
                  SubSeq(s, i + 1, i + Len(sub)) = sub})

Find(s, sub) == FindFrom(s, sub, 0)

\* sub in s
Contains(s, sub) == Find(s, sub) >= 0

\* str.replace(old, new): every non-overlapping occurrence, left to right
RECURSIVE ReplaceAt(_, _, _, _)
ReplaceAt(s, old, new, i) ==
    IF i < 0 THEN s
    ELSE UpTo(s, i) \o new
         \o ReplaceAt(From(s, i + Len(old)), old, new,
                      Find(From(s, i + Len(old)), old))

Replace(s, old, new) == ReplaceAt(s, old, new, Find(s, old))

UpperLetters == "ABCDEFGHIJKLMNOPQRSTUVWXYZ"
LowerLetters == "abcdefghijklmnopqrstuvwxyz"

LowerAt(c, i) == IF c # "" /\ i >= 0 THEN CharAt(LowerLetters, i + 1) ELSE c

LowerChar(c) == LowerAt(c, Find(UpperLetters, c))

\* str.lower()
RECURSIVE Lower(_)
Lower(s) ==
    IF Len(s) <= 1 THEN LowerChar(s)
    ELSE Lower(UpTo(s, Len(s) \div 2)) \o Lower(From(s, Len(s) \div 2))

\* s.split(sep)[0]
SplitAt(s, i) == IF i < 0 THEN s ELSE UpTo(s, i)

SplitFirst(s, sep) == SplitAt(s, Find(s, sep))

Digits == "0123456789"

IsDigits(s) == \A i \in 1..Len(s) : Contains(Digits, CharAt(s, i))

RECURSIVE ToInt(_)
ToInt(s) ==
    IF s = "" THEN 0
    ELSE 10 * ToInt(SubSeq(s, 1, Len(s) - 1)) + Find(Digits, CharAt(s, Len(s)))

(***************************************************************************)
(* datetime and timedelta.  A datetime is its proleptic Gregorian ordinal  *)
(* (0001-01-01 is day 1), the second of its day and, when it is aware,     *)
(* its UTC offset in seconds.  Microseconds are not modelled.              *)
(***************************************************************************)
SecondsPerDay == 86400

IsLeap(y) == y % 4 = 0 /\ (y % 100 # 0 \/ y % 400 = 0)

DaysInMonth(y, m) ==
    IF m = 2 THEN (IF IsLeap(y) THEN 29 ELSE 28)
    ELSE IF m \in {4, 6, 9, 11} THEN 30 ELSE 31

DaysBeforeYear(y) ==
    LET p == y - 1 IN p * 365 + (p \div 4) - (p \div 100) + (p \div 400)

RECURSIVE DaysBeforeMonth(_, _)
DaysBeforeMonth(y, m) ==
    IF m = 1 THEN 0 ELSE DaysBeforeMonth(y, m - 1) + DaysInMonth(y, m - 1)

Ymd2Ord(y, m, d) == DaysBeforeYear(y) + DaysBeforeMonth(y, m) + d

Naive(ord, sec)      == [ord |-> ord, sec |-> sec, aware |-> FALSE, off |-> 0]
Aware(ord, sec, off) == [ord |-> ord, sec |-> sec, aware |-> TRUE, off |-> off]

\* datetime(y, m, d, hh, mm, ss): ValueError on a field out of range
MakeDatetime(y, m, d, hh, mm, ss) ==
    IF /\ y \in 1..9999 /\ m \in 1..12
       /\ d >= 1 /\ d <= DaysInMonth(y, m)
       /\ hh \in 0..23 /\ mm \in 0..59 /\ ss \in 0..59
    THEN Ok(Naive(Ymd2Ord(y, m, d), hh * 3600 + mm * 60 + ss))
    ELSE Raise("ValueError")

\* timedelta normalisation: 0 <= seconds < 86400, days carries the sign
Timedelta(days, secs) ==
    [days |-> days + (secs \div SecondsPerDay), secs |-> secs % SecondsPerDay]

\* a - b for two datetimes: TypeError when exactly one of them is aware
DtSub(a, b) ==
    IF a.aware # b.aware THEN Raise("TypeError")
    ELSE Ok(Timedelta(a.ord - b.ord, (a.sec - a.off) - (b.sec - b.off)))

\* dt - timedelta(days=n)
DtMinusDays(dt, n) == [dt EXCEPT !.ord = dt.ord - n]

\* a <= b and a >= b: TypeError when exactly one of them is aware
DtLe(a, b) ==
    IF a.aware # b.aware THEN Raise("TypeError")
    ELSE Ok(Timedelta(b.ord - a.ord, (b.sec - b.off) - (a.sec - a.off)).days >= 0)

DtGe(a, b) == DtLe(b, a)

(***************************************************************************)
(* datetime.fromisoformat on YYYY-MM-DD[?HH[:MM[:SS]][(+|-)HH:MM]]; every  *)
(* rejection is a ValueError.                                              *)
(***************************************************************************)
\* HH, HH:MM or HH:MM:SS as <<ok, hh, mm, ss>>
HhMmSsShape(t, n) ==
    /\ n \in {2, 5, 8}
    /\ IsDigits(SubSeq(t, 1, 2))
    /\ n >= 5 => (CharAt(t, 3) = ":" /\ IsDigits(SubSeq(t, 4, 5)))
    /\ n >= 8 => (CharAt(t, 6) = ":" /\ IsDigits(SubSeq(t, 7, 8)))

HhMmSsFields(t, n) ==
    <<TRUE, ToInt(SubSeq(t, 1, 2)),
      IF n >= 5 THEN ToInt(SubSeq(t, 4, 5)) ELSE 0,
      IF n >= 8 THEN ToInt(SubSeq(t, 7, 8)) ELSE 0>>

ParseHhMmSs(t) ==
    IF HhMmSsShape(t, Len(t)) THEN HhMmSsFields(t, Len(t)) ELSE <<FALSE, 0, 0, 0>>

IsoDateShape(s) ==
    /\ Len(s) >= 10
    /\ IsDigits(SubSeq(s, 1, 4)) /\ CharAt(s, 5) = "-"
    /\ IsDigits(SubSeq(s, 6, 7)) /\ CharAt(s, 8) = "-"
    /\ IsDigits(SubSeq(s, 9, 10))

\* tstr.find('-') + 1 or tstr.find('+') + 1, as a 0-based index, -1 for none
TzPosOf(minus, plus) == IF minus >= 0 THEN minus ELSE plus
TzPos(tstr) == TzPosOf(Find(tstr, "-"), Find(tstr, "+"))

\* the offset as <<ok, hh, mm, ss>>; a tz string must be HH:MM
ParseTz(tzstr) ==
    IF Len(tzstr) # 5 THEN <<FALSE, 0, 0, 0>> ELSE ParseHhMmSs(tzstr)

IsoBuild(dt, tz, sign, hasTz) ==
    IF ~dt.ok \/ tz[2] > 23 \/ tz[3] > 59 THEN Raise("ValueError")
    ELSE IF hasTz
         THEN Ok(Aware(dt.val.ord, dt.val.sec, sign * (tz[2] * 3600 + tz[3] * 60)))
         ELSE dt

IsoFields(s, tm, tz, sign, hasTz) ==
    IF ~IsoDateShape(s) \/ ~tm[1] \/ ~tz[1] THEN Raise("ValueError")
    ELSE IsoBuild(MakeDatetime(ToInt(SubSeq(s, 1, 4)), ToInt(SubSeq(s, 6, 7)),
                               ToInt(SubSeq(s, 9, 10)), tm[2], tm[3], tm[4]),
                  tz, sign, hasTz)

IsoSplit(s, tstr, tzpos) ==
    IF tzpos >= 0
    THEN IsoFields(s, ParseHhMmSs(UpTo(tstr, tzpos)),
                   ParseTz(From(tstr, tzpos + 1)),
                   IF CharAt(tstr, tzpos + 1) = "-" THEN -1 ELSE 1, TRUE)
    ELSE IsoFields(s, IF tstr = "" THEN <<TRUE, 0, 0, 0>> ELSE ParseHhMmSs(tstr),
                   <<TRUE, 0, 0, 0>>, 1, FALSE)

IsoTime(s, tstr) == IsoSplit(s, tstr, TzPos(tstr))

FromIsoFormat(s) == IsoTime(s, From(s, 11))

(***************************************************************************)
(* DateRange (domain/value_objects/date_range.py)                          *)
(***************************************************************************)
MaxRangeDays == 30
MinLookback  == 1
MaxLookback  == 30

\* the comparison of __post_init__: start_date >= end_date
StartNotBeforeEnd(start, end) == DtGe(start, end)

\* the length test off by one
RangeTooLongFrom30(days_diff) == days_diff >= MaxRangeDays

\* days_diff > 30
RangeTooLong(days_diff) == days_diff > MaxRangeDays

\* DateRange(start_date, end_date): the frozen dataclass and its __post_init__
PostInit(start, end, ge) ==
    IF ~ge.ok THEN Raise(ge.exc)
    ELSE IF ge.val THEN Raise("ValueError")
    ELSE IF RangeTooLong(DtSub(end, start).val.days) THEN Raise("ValueError")
    ELSE Ok([start_date |-> start, end_date |-> end])

DateRange(start, end) == PostInit(start, end, StartNotBeforeEnd(start, end))

\* the guard of create_last_n_days on its days argument
LookbackRejected(days) == days < MinLookback \/ days > MaxLookback

\* DateRange.create_last_n_days(end_date, days)
create_last_n_days(end, days) ==
    IF LookbackRejected(days) THEN Raise("ValueError")
    ELSE DateRange(DtMinusDays(end, days), end)

\* DateRange.to_days()
to_days(dr) == DtSub(dr.end_date, dr.start_date).val.days

(***************************************************************************)
(* NewsArticle (domain/entities/news_article.py)                           *)
(***************************************************************************)
\* not s or not s.strip()
Blank(s) == s = "" \/ Strip(s) = ""

\* the scheme test with any scheme accepted
HasAnyScheme(url) == Contains(url, "://")

\* url.startswith("http://") or url.startswith("https://")
HasHttpScheme(url) == StartsWith(url, "http://") \/ StartsWith(url, "https://")

\* NewsArticle(...): the frozen dataclass and its __post_init__
NewsArticle(title, source, url, summary, category, published_date) ==
    IF Blank(title) THEN Raise("ValueError")
    ELSE IF Blank(source) THEN Raise("ValueError")
    ELSE IF Blank(url) THEN Raise("ValueError")
    ELSE IF Blank(summary) THEN Raise("ValueError")
    ELSE IF ~HasHttpScheme(url) THEN Raise("ValueError")
    ELSE Ok([title |-> title, source |-> source, url |-> url,
             summary |-> summary, category |-> category,
             published_date |-> published_date])

\* the comparison of is_in_date_range: start_date <= published_date <= end_date
ChainedRest(lo, mid, end) ==
    IF ~lo.ok THEN lo
    ELSE IF ~lo.val THEN Ok(FALSE)
    ELSE DtLe(mid, end)

ChainedLe(start, mid, end) == ChainedRest(DtLe(start, mid), mid, end)

\* is_in_date_range without its early return for an undated article
is_in_date_range_keeps_undated(article, start, end) ==
    IF article.published_date = PyNone THEN Ok(TRUE)
    ELSE ChainedLe(start, article.published_date, end)

\* NewsArticle.is_in_date_range(start_date, end_date)
is_in_date_range(article, start, end) ==
    IF article.published_date = PyNone THEN Ok(FALSE)
    ELSE ChainedLe(start, article.published_date, end)

(***************************************************************************)
(* TavilyNewsRepository._categorize_article                                *)
(***************************************************************************)
ModelReleaseKeywords ==
    <<"model", "gpt", "claude", "gemini", "release", "launch", "announce">>
InvestmentKeywords ==
    <<"investment", "funding", "million", "billion", "raise", "capital">>
ResearchKeywords == <<"research", "benchmark", "study", "paper", "academic">>
EthicsKeywords == <<"ethics", "bias", "fairness", "regulation", "safety">>
CompetitiveKeywords == <<"competition", "versus", "vs", "battle", "rival">>
CreativeKeywords == <<"creative", "art", "music", "generation", "synthesis">>

\* any(keyword in text for keyword in keywords)
AnyKeyword(text, keywords) ==
    \E i \in 1..Len(keywords) : Contains(text, keywords[i])

\* text = (title + " " + content).lower()
CategoryText(title, content) == Lower(title \o " " \o content)

\* the keyword tests with the first two in the other order
CategorizeInvestmentFirst(text) ==
        IF AnyKeyword(text, InvestmentKeywords) THEN "Investment / Government Policy"
        ELSE IF AnyKeyword(text, ModelReleaseKeywords) THEN "Model Release"
        ELSE IF AnyKeyword(text, ResearchKeywords) THEN "Research / Benchmark"
        ELSE IF AnyKeyword(text, EthicsKeywords) THEN "Ethics / Societal Impact"
        ELSE IF AnyKeyword(text, CompetitiveKeywords) THEN "Competitive Dynamics"
        ELSE IF AnyKeyword(text, CreativeKeywords) THEN "Creative Application"
        ELSE "General"

Categorize(text) ==
        IF AnyKeyword(text, ModelReleaseKeywords) THEN "Model Release"
        ELSE IF AnyKeyword(text, InvestmentKeywords)
             THEN "Investment / Government Policy"
        ELSE IF AnyKeyword(text, ResearchKeywords) THEN "Research / Benchmark"
        ELSE IF AnyKeyword(text, EthicsKeywords) THEN "Ethics / Societal Impact"
        ELSE IF AnyKeyword(text, CompetitiveKeywords) THEN "Competitive Dynamics"
        ELSE IF AnyKeyword(text, CreativeKeywords) THEN "Creative Application"
        ELSE "General"

_categorize_article(title, content) == Categorize(CategoryText(title, content))

(***************************************************************************)
(* TavilyNewsRepository._extract_source_from_url, with urllib's urlparse   *)
(* on urls without ';' parameters.                                         *)
(***************************************************************************)
SchemeChars == UpperLetters \o LowerLetters \o Digits \o "+-."

IsAlpha(c) == c # "" /\ (Contains(UpperLetters, c) \/ Contains(LowerLetters, c))

Min(a, b) == IF a < b THEN a ELSE b

\* _splitnetloc: the end of the netloc, the first of / ? # after the //
Cut(d, w) == IF w >= 0 THEN Min(d, w) ELSE d

NetlocEnd(rest) ==
    Cut(Cut(Cut(Len(rest), FindFrom(rest, "/", 2)), FindFrom(rest, "?", 2)),
        FindFrom(rest, "#", 2))

\* the path: what is left without fragment and query
PathOf(after) == SplitFirst(SplitFirst(after, "#"), "?")

CheckBrackets(netloc, path) ==
    IF Contains(netloc, "[") # Contains(netloc, "]") THEN Raise("ValueError")
    ELSE Ok([netloc |-> netloc, path |-> path])

SplitNetloc(rest, delim) ==
    CheckBrackets(SubSeq(rest, 3, delim), PathOf(From(rest, delim)))

AfterScheme(rest) ==
    IF UpTo(rest, 2) = "//" THEN SplitNetloc(rest, NetlocEnd(rest))
    ELSE Ok([netloc |-> "", path |-> PathOf(rest)])

HasScheme(url, i) ==
    /\ i > 0 /\ IsAlpha(CharAt(url, 1))
    /\ \A j \in 1..i : Contains(SchemeChars, CharAt(url, j))

SplitScheme(url, i) ==
    AfterScheme(IF HasScheme(url, i) THEN From(url, i + 1) ELSE url)

UrlSplit(url) == SplitScheme(url, Find(url, ":"))

\* urlparse(url): netloc and path, ValueError on an unbalanced IPv6 bracket;
\* tabs and newlines are removed from the url first
UrlParse(url) == UrlSplit(Replace(Replace(url, "\t", ""), "\n", ""))

\* domain.replace('www.', '')
StripWww(domain) == Replace(domain, "www.", "")

SourceOf(parsed) ==
    IF ~parsed.ok THEN "Unknown Source"
    ELSE StripWww(IF parsed.val.netloc # "" THEN parsed.val.netloc
                  ELSE SplitFirst(parsed.val.path, "/"))

_extract_source_from_url(url) == SourceOf(UrlParse(url))

(***************************************************************************)
(* TavilyNewsRepository._map_to_entity and _to_domain_entities             *)
(***************************************************************************)
SummaryMax == 500

\* result.get(key, '')
Get(result, key) == IF result[key] = Missing THEN Str("") ELSE result[key]

\* value.strip(): AttributeError on a value that is not a str
StripValue(v) == IF v.k = "str" THEN Ok(Strip(v.v)) ELSE Raise("AttributeError")

\* truth value of a field
Truthy(v) == (v.k = "str" /\ v.v # "") \/ (v.k = "int" /\ v.v # 0)

\* the published_date block: None unless the string parses
DateOrNone(dt) == IF dt.ok THEN dt.val ELSE PyNone

ParsePublishedDate(v) ==
    IF ~Truthy(v) THEN PyNone
    ELSE IF v.k # "str" THEN PyNone
    ELSE DateOrNone(FromIsoFormat(Replace(v.v, "Z", "+00:00")))

\* the summary without the limit on its length
SummaryUncut(content) ==
    IF content # "" THEN content ELSE "No summary available"

\* content[:500] if content else "No summary available"
Summary(content) ==
    IF content # "" THEN UpTo(content, SummaryMax) ELSE "No summary available"

\* the mapping without the try around the parse of the published date
MapFieldsUnguarded(title, url, content, published_date_str) ==
    IF Truthy(published_date_str) /\ published_date_str.k # "str"
    THEN Raise("AttributeError")
    ELSE IF /\ Truthy(published_date_str)
            /\ ~FromIsoFormat(Replace(published_date_str.v, "Z", "+00:00")).ok
    THEN Raise("ValueError")
    ELSE NewsArticle(title,
                     _extract_source_from_url(url),
                     url,
                     Summary(content),
                     _categorize_article(title, content),
                     ParsePublishedDate(published_date_str))

MapFields(title, url, content, published_date_str) ==
    NewsArticle(title,
                _extract_source_from_url(url),
                url,
                Summary(content),
                _categorize_article(title, content),
                ParsePublishedDate(published_date_str))

MapStripped(result, title, url, content) ==
    IF ~title.ok THEN title
    ELSE IF ~url.ok THEN url
    ELSE IF ~content.ok THEN content
    ELSE MapFields(title.val, url.val, content.val, Get(result, "published_date"))

_map_to_entity(result) ==
    MapStripped(result, StripValue(Get(result, "title")),
                StripValue(Get(result, "url")),
                StripValue(Get(result, "content")))

\* the exception classes the loop of _to_domain_entities swallows
Skipped(exc) == exc \in {"ValueError", "KeyError"}

\* the loop over api_response['results']: an article per mapped result, the
\* first exception that is not swallowed ends it
\* the append of _to_domain_entities skipping a url already collected
CollectDistinctUrls(head, rest) ==
    IF ~rest.ok THEN rest
    ELSE IF head.ok /\ \A i \in 1..Len(rest.val) : rest.val[i].url # head.val.url
         THEN Ok(<<head.val>> \o rest.val)
    ELSE rest

Collect(head, rest) ==
    IF ~rest.ok THEN rest
    ELSE IF head.ok THEN Ok(<<head.val>> \o rest.val)
    ELSE rest

RECURSIVE MapResults(_)
MapFrom(head, results) ==
    IF ~head.ok /\ ~Skipped(head.exc) THEN head
    ELSE Collect(head, MapResults(Tail(results)))

MapResults(results) ==
    IF results = <<>> THEN Ok(<<>>)
    ELSE MapFrom(_map_to_entity(Head(results)), results)

\* a response is PyNone, a dict without 'results' (has_results FALSE) or a
\* dict with a list of results
_to_domain_entities(api_response) ==
    IF api_response = PyNone \/ ~api_response.has_results THEN Ok(<<>>)
    ELSE MapResults(api_response.results)

(***************************************************************************)
(* DateRange.format_for_display: strftime('%d %B %Y') of both ends         *)
(***************************************************************************)
MonthNames ==
    <<"January", "February", "March", "April", "May", "June", "July",
      "August", "September", "October", "November", "December">>

\* the year, month and day of an ordinal
YearOf(ord) ==
    CHOOSE y \in ((ord \div 366) + 1)..((ord \div 365) + 1) :
        DaysBeforeYear(y) < ord /\ ord <= DaysBeforeYear(y + 1)

MonthOf(y, n) ==
    CHOOSE m \in 1..12 :
        DaysBeforeMonth(y, m) < n /\ n <= DaysBeforeMonth(y, m) + DaysInMonth(y, m)

YmdOf(y, m, n) == [y |-> y, m |-> m, d |-> n - DaysBeforeMonth(y, m)]

DayOfYear(y, n) == YmdOf(y, MonthOf(y, n), n)

InYear(y, ord) == DayOfYear(y, ord - DaysBeforeYear(y))

Ord2Ymd(ord) == InYear(YearOf(ord), ord)

\* the last `width` decimal digits of n, zero padded
RECURSIVE Pad(_, _)
Pad(n, width) ==
    IF width = 0 THEN ""
    ELSE Pad(n \div 10, width - 1) \o CharAt(Digits, (n % 10) + 1)

\* dt.strftime('%d %B %Y')
DayMonthYear(c) == Pad(c.d, 2) \o " " \o MonthNames[c.m] \o " " \o Pad(c.y, 4)

Strftime(dt) == DayMonthYear(Ord2Ymd(dt.ord))

format_for_display(dr) ==
    Strftime(dr.start_date) \o " - " \o Strftime(dr.end_date)

(***************************************************************************)
(* DateRange.parse_from_turkish_date: the month names of the table are     *)
(* replaced by the English ones, then datetime.strptime(s, "%d %B %Y")     *)
(* reads the text.  The table is written as src/ has it.                   *)
(***************************************************************************)
\* the table with the names of March and May exchanged
turkish_months_exchanged ==
    <<<<"Ocak", "January">>, <<"?ubat", "February">>, <<"Mart", "May">>,
      <<"Nisan", "April">>, <<"May?s", "March">>, <<"Haziran", "June">>,
      <<"Temmuz", "July">>, <<"A?ustos", "August">>, <<"Eyl?l", "September">>,
      <<"Ekim", "October">>, <<"Kas?m", "November">>, <<"Aral?k", "December">>>>

turkish_months ==
    <<<<"Ocak", "January">>, <<"?ubat", "February">>, <<"Mart", "March">>,
      <<"Nisan", "April">>, <<"May?s", "May">>, <<"Haziran", "June">>,
      <<"Temmuz", "July">>, <<"A?ustos", "August">>, <<"Eyl?l", "September">>,
      <<"Ekim", "October">>, <<"Kas?m", "November">>, <<"Aral?k", "December">>>>

\* the loop over turkish_months.items(), from entry i on
RECURSIVE NormalizeFrom(_, _)
NormalizeFrom(s, i) ==
    IF i > Len(turkish_months) THEN s
    ELSE NormalizeFrom(Replace(s, turkish_months[i][1], turkish_months[i][2]), i + 1)

\* 1-based position of the first whitespace, or of the first other
\* character, at or after p; Len(s) + 1 when there is none
NextSpace(s, p) ==
    SetMin({i \in p..Len(s) : CharAt(s, i) \in Whitespace} \cup {Len(s) + 1})
NextText(s, p) ==
    SetMin({i \in p..Len(s) : CharAt(s, i) \notin Whitespace} \cup {Len(s) + 1})

\* %d: 3[0-1]|[1-2]\d|0[1-9]|[1-9]| [1-9]; 0 when the text is none of them
DayStart(s) == IF Len(s) >= 1 /\ CharAt(s, 1) = " " THEN 2 ELSE 1

DayOf(text, start) ==
    IF text = "" \/ ~IsDigits(text) \/ Len(text) > 2 THEN 0
    ELSE IF start = 2 /\ Len(text) # 1 THEN 0
    ELSE IF ToInt(text) > 31 THEN 0
    ELSE ToInt(text)

\* %B: a full month name, in any case; 0 when the text is none
MonthIndex(text) ==
    SetMax({0} \cup {m \in 1..12 : Lower(MonthNames[m]) = Lower(text)})

\* %Y: four digits, to the end of the text; -1 when the text is not
YearOfText(text) == IF Len(text) = 4 /\ IsDigits(text) THEN ToInt(text) ELSE -1

StrptimeBuild(d, m, y) ==
    IF d = 0 \/ m = 0 \/ y < 0 THEN Raise("ValueError")
    ELSE MakeDatetime(y, m, d, 0, 0, 0)

\* the month runs from m0 to m1 - 1, the year from NextText(s, m1) on
StrptimeYear(s, d, m0, m1) ==
    StrptimeBuild(d, MonthIndex(SubSeq(s, m0, m1 - 1)),
                  YearOfText(SubSeq(s, NextText(s, m1), Len(s))))

\* the day runs from d0 to d1 - 1, the month from NextText(s, d1) on
StrptimeMonth(s, d0, d1) ==
    StrptimeYear(s, DayOf(SubSeq(s, d0, d1 - 1), d0), NextText(s, d1),
                 NextSpace(s, NextText(s, d1)))

\* datetime.strptime(s, "%d %B %Y")
Strptime(s) == StrptimeMonth(s, DayStart(s), NextSpace(s, DayStart(s)))

\* DateRange._parse_turkish_date(date_str): any failure is a ValueError
_parse_turkish_date(date_str) == Strptime(NormalizeFrom(date_str, 1))

LastNDaysBefore(end_date, days) ==
    IF ~end_date.ok THEN end_date ELSE create_last_n_days(end_date.val, days)

\* DateRange.parse_from_turkish_date(end_date_str, days)
parse_from_turkish_date(end_date_str, days) ==
    LastNDaysBefore(_parse_turkish_date(end_date_str), days)

(***************************************************************************)
(* One bulletin run: GenerateBulletinUseCase.execute over                  *)
(* TavilyNewsRepository.search and OpenAIBulletinWriter.write_bulletin.    *)
(***************************************************************************)
VARIABLES
    pc,                \* position of the run
    end_date_str,      \* the end date text of BulletinCLI.run, "" if none
    date_range,        \* the DateRange argument of execute
    domains,           \* the domains argument: <<>> is None
    search_calls,      \* the calls made to the Tavily client, in order
    search_replies,    \* what the client answered to each call
    articles,          \* what repository.search returned
    filtered_articles, \* the list comprehension of execute
    writer_calls,      \* the article lists handed to write_bulletin
    llm_calls,         \* number of calls of openai.ChatCompletion.create
    llm_replies,       \* what the language model answered to each call
    bulletin,          \* the BulletinDTO returned, PyNone before
    error,             \* the exception class leaving execute, "" if none
    search_results,    \* the response NewsBulletinGenerator.generate_bulletin holds
    op, arg, ret       \* a single call of one function and what it gave

runVars == <<pc, end_date_str, date_range, domains, search_calls, search_replies,
             articles, filtered_articles, writer_calls, llm_calls, llm_replies,
             bulletin, error>>
fnVars == <<op, arg, ret>>
vars == <<pc, end_date_str, date_range, domains, search_calls, search_replies,
          articles, filtered_articles, writer_calls, llm_calls, llm_replies,
          bulletin, error, search_results, op, arg, ret>>

MaxResults == 2

Raw(t, u, c, d) == [title |-> t, url |-> u, content |-> c, published_date |-> d]

\* search results the client may return
RawResults ==
    { Raw(Str("GPT update"), Str("https://techcrunch.com/a"), Str("in window"),
          Str("2025-08-25")),
      Raw(Str("Old study"), Str("https://wired.com/b"), Str("before window"),
          Str("2025-08-10")),
      Raw(Str("Undated"), Str("https://www.theverge.com/c"), Str("no date"),
          Missing),
      Raw(Str("On start"), Str("https://techcrunch.com/a"), Str("same url"),
          Str("2025-08-24T00:00:00")),
      Raw(Str("On end"), Str("http://venturebeat.com/e"), Str("end of window"),
          Str("2025-08-31")),
      Raw(Str("Late"), Str("https://wired.com/f"), Str("a second late"),
          Str("2025-08-31T00:00:01")),
      Raw(Str("Zulu"), Str("https://semafor.com/g"), Str("utc marker"),
          Str("2025-08-25T12:00:00Z")),
      Raw(Str("   "), Str("https://wired.com/h"), Str("blank title"),
          Str("2025-08-26")),
      Raw(PyNone, Str("https://wired.com/i"), Str("null title"),
          Str("2025-08-26")) }

RECURSIVE SeqsUpTo(_, _)
Extend(shorter, S, n) ==
    shorter \cup {Append(q, x) : q \in {r \in shorter : Len(r) = n - 1}, x \in S}

SeqsUpTo(S, n) == IF n = 0 THEN {<<>>} ELSE Extend(SeqsUpTo(S, n - 1), S, n)

\* the responses of the client: None, a dict without 'results', a dict with results
Responses ==
    {PyNone, [has_results |-> FALSE, results |-> <<>>]}
    \cup {[has_results |-> TRUE, results |-> rs] : rs \in SeqsUpTo(RawResults, MaxResults)}

\* the date ranges a run is started with
RunEnds == {Naive(Ymd2Ord(2025, 8, 31), 0), Aware(Ymd2Ord(2025, 8, 31), 0, 0)}
RunRanges == {create_last_n_days(e, 7).val : e \in RunEnds}

DomainLists == {<<>>, <<"techcrunch.com", "wired.com">>}

NoFn == /\ op = "none" /\ arg = <<>> /\ ret = <<>>

\* the end_date_str argument of BulletinCLI.run ("" is None), what the user
\* types at the prompt and datetime.now()
CliTexts ==
    {"", "31 A?ustos 2025", "31.08.2025", "32 Ocak 2025", "31 Agustos 2025"}
TypedTexts == {"", "  ", " 31 A?ustos 2025 ", "bugun"}
Nows == {Naive(Ymd2Ord(2025, 8, 31), 37800)}

\* a run starts at execute, or at BulletinCLI.run which calls it
Init ==
    /\ \/ /\ pc = "start"
          /\ end_date_str = ""
          /\ date_range \in RunRanges
          /\ domains \in DomainLists
       \/ /\ pc = "cli"
          /\ end_date_str \in CliTexts
          /\ date_range = PyNone
          /\ domains = <<>>
    /\ search_calls = <<>>
    /\ search_replies = <<>>
    /\ articles = <<>>
    /\ filtered_articles = <<>>
    /\ writer_calls = <<>>
    /\ llm_calls = 0
    /\ llm_replies = <<>>
    /\ bulletin = PyNone
    /\ error = ""
    /\ search_results = PyNone
    /\ NoFn

(***************************************************************************)
(* Domain and BulletinCLI.run up to its call of execute.                   *)
(***************************************************************************)
\* Domain(value): the frozen dataclass and its __post_init__
Domain(value) ==
    IF value = "" \/ Strip(value) = "" THEN Raise("ValueError")
    ELSE IF Contains(value, " ") THEN Raise("ValueError")
    ELSE Ok(value)

domain_strings ==
    <<"techcrunch.com", "venturebeat.com", "theverge.com", "wired.com",
      "semafor.com", "openai.com/blog", "anthropic.com/news", "google.ai/blog",
      "meta.ai/news", "huggingface.co/blog", "microsoft.com/blog",
      "nvidia.com/newsroom", "stability.ai/blog", "midjourney.com",
      "deepmind.google", "artificialintelligence-news.com",
      "donanimhaber.com/yapay-zeka">>

\* Domain.create_default_domains()
create_default_domains ==
    [i \in 1..Len(domain_strings) |-> Domain(domain_strings[i]).val]

\* the text run parses: its argument, else what the user types, stripped,
\* else today's date
EndDateText(given, typed, now) ==
    IF given # "" THEN given
    ELSE IF Strip(typed) # "" THEN Strip(typed)
    ELSE Strftime(now)

\* the except clause that takes a default date range instead of raising
ParsedOrDefault(got) ==
    /\ date_range' = IF got.ok THEN got.val
                     ELSE create_last_n_days(Naive(Ymd2Ord(2025, 8, 31), 0), 7).val
    /\ domains' = create_default_domains
    /\ pc' = "start"
    /\ error' = error

\* try: date_range = DateRange.parse_from_turkish_date(...) except: raise
Parsed(got) ==
    IF got.ok
    THEN /\ date_range' = got.val
         /\ domains' = create_default_domains
         /\ pc' = "start"
         /\ error' = error
    ELSE /\ date_range' = date_range
         /\ domains' = domains
         /\ pc' = "failed"
         /\ error' = got.exc

\* BulletinCLI.run, up to the call of execute
Run ==
    /\ pc = "cli"
    /\ \E typed \in TypedTexts, now \in Nows :
         /\ end_date_str' = EndDateText(end_date_str, typed, now)
         /\ Parsed(parse_from_turkish_date(
                      EndDateText(end_date_str, typed, now), 7))
    /\ UNCHANGED <<search_calls, search_replies, articles, filtered_articles,
                   writer_calls, llm_calls, llm_replies, bulletin>>
    /\ UNCHANGED fnVars
    /\ UNCHANGED search_results

\* the arguments search passes to self._client.search
ClientCall(dr, doms) ==
    [days |-> to_days(dr),
     include_domains |-> IF doms # <<>> THEN doms ELSE PyNone]

\* TavilyNewsRepository.search after the client answered: every exception of
\* the try block leaves as RepositoryException
Wrap(mapped) == IF mapped.ok THEN mapped ELSE Raise("RepositoryException")

search(reply) ==
    IF reply.raised THEN Raise("RepositoryException")
    ELSE Wrap(_to_domain_entities(reply.response))

\* execute, first statement: the repository searches, the client answers
Replies ==
    {[raised |-> TRUE, response |-> PyNone]}
    \cup {[raised |-> FALSE, response |-> r] : r \in Responses}

\* the search whose failure is noted and the run goes on with no articles
SearchedOrEmpty(got) ==
    /\ articles' = IF got.ok THEN got.val ELSE <<>>
    /\ pc' = "searched"
    /\ error' = IF got.ok THEN error ELSE got.exc

Searched(got) ==
    IF got.ok
    THEN /\ articles' = got.val
         /\ pc' = "searched"
         /\ error' = error
    ELSE /\ articles' = articles
         /\ pc' = "failed"
         /\ error' = got.exc

Search ==
    /\ pc = "start"
    /\ \E reply \in Replies :
         /\ search_calls' = Append(search_calls, ClientCall(date_range, domains))
         /\ search_replies' = Append(search_replies, reply)
         /\ Searched(search(reply))
    /\ UNCHANGED <<end_date_str, date_range, domains, filtered_articles,
                   writer_calls, llm_calls, llm_replies, bulletin>>
    /\ UNCHANGED fnVars
    /\ UNCHANGED search_results

\* [a for a in articles if a.is_in_date_range(start, end)]
KeepIf(keep, article, rest) ==
    IF ~rest.ok THEN rest
    ELSE IF keep.val THEN Ok(<<article>> \o rest.val)
    ELSE rest

RECURSIVE FilterByDate(_, _)
FilterFrom(keep, as, dr) ==
    IF ~keep.ok THEN keep
    ELSE KeepIf(keep, Head(as), FilterByDate(Tail(as), dr))

FilterByDate(as, dr) ==
    IF as = <<>> THEN Ok(<<>>)
    ELSE FilterFrom(is_in_date_range(Head(as), dr.start_date, dr.end_date), as, dr)

\* execute, second statement
Filtered(got) ==
    IF got.ok
    THEN /\ filtered_articles' = got.val
         /\ pc' = "filtered"
         /\ error' = error
    ELSE /\ filtered_articles' = filtered_articles
         /\ pc' = "failed"
         /\ error' = got.exc

Filter ==
    /\ pc = "searched"
    /\ Filtered(FilterByDate(articles, date_range))
    /\ UNCHANGED <<end_date_str, date_range, domains, search_calls,
                   search_replies, articles, writer_calls, llm_calls,
                   llm_replies, bulletin>>
    /\ UNCHANGED fnVars
    /\ UNCHANGED search_results

NoNewsText(dr) ==
    "Haftalik Yapay Zeka Bulteni (" \o format_for_display(dr)
        \o ")\n\nBu tarih araliginda haber bulunamadi."

FailureText == "Bulten olusturulamadi: "

\* what openai.ChatCompletion.create gives: a completion or an exception
Completions ==
    {[raised |-> FALSE, text |-> "bulletin text"],
     [raised |-> TRUE, text |-> "timeout"]}

\* the completion's text taken without the except clause
CompletionText(reply) == reply.text

\* the try block of write_bulletin: the completion, or the failure text
Written(reply) ==
    IF reply.raised THEN FailureText \o reply.text ELSE reply.text

\* the writer handed the list as the search returned it
WriterArticlesUnfiltered == articles

\* what the writer is handed by execute
WriterArticles == filtered_articles

\* write_bulletin without its early return for an empty list
WriteCallsLlmAlways ==
    /\ pc = "filtered"
    /\ writer_calls' = Append(writer_calls, WriterArticles)
    /\ llm_calls' = llm_calls + 1
    /\ \E reply \in Completions :
         /\ llm_replies' = Append(llm_replies, reply)
         /\ bulletin' = [content |-> Written(reply)]
    /\ pc' = "written"
    /\ UNCHANGED <<end_date_str, date_range, domains, search_calls,
                   search_replies, articles, filtered_articles, error>>
    /\ UNCHANGED fnVars
    /\ UNCHANGED search_results

\* write_bulletin calling the language model a second time after a failure
WriteRetriesLlm ==
    /\ pc = "filtered"
    /\ writer_calls' = Append(writer_calls, WriterArticles)
    /\ IF WriterArticles = <<>>
       THEN /\ llm_calls' = llm_calls
            /\ llm_replies' = llm_replies
            /\ bulletin' = [content |-> NoNewsText(date_range)]
       ELSE \E first, reply \in Completions :
                 /\ llm_calls' = llm_calls + (IF first.raised THEN 2 ELSE 1)
                 /\ llm_replies' = IF first.raised THEN <<first, reply>> ELSE <<first>>
                 /\ bulletin' = [content |-> Written(IF first.raised THEN reply ELSE first)]
    /\ pc' = "written"
    /\ UNCHANGED <<end_date_str, date_range, domains, search_calls,
                   search_replies, articles, filtered_articles, error>>
    /\ UNCHANGED fnVars
    /\ UNCHANGED search_results

\* execute, third statement: write_bulletin, which calls the language model
\* unless the list is empty and turns its failure into text
Write ==
    /\ pc = "filtered"
    /\ writer_calls' = Append(writer_calls, WriterArticles)
    /\ IF WriterArticles = <<>>
       THEN /\ llm_calls' = llm_calls
            /\ llm_replies' = llm_replies
            /\ bulletin' = [content |-> NoNewsText(date_range)]
       ELSE /\ llm_calls' = llm_calls + 1
            /\ \E reply \in Completions :
                 /\ llm_replies' = Append(llm_replies, reply)
                 /\ bulletin' = [content |-> Written(reply)]
    /\ pc' = "written"
    /\ UNCHANGED <<end_date_str, date_range, domains, search_calls,
                   search_replies, articles, filtered_articles, error>>
    /\ UNCHANGED fnVars
    /\ UNCHANGED search_results

\* execute, return BulletinDTO(...)
Return ==
    /\ pc = "written"
    /\ bulletin' = [content |-> bulletin.content,
                    date_range |-> format_for_display(date_range),
                    article_count |-> Len(filtered_articles)]
    /\ pc' = "done"
    /\ UNCHANGED <<end_date_str, date_range, domains, search_calls,
                   search_replies, articles, filtered_articles, writer_calls,
                   llm_calls, llm_replies, error>>
    /\ UNCHANGED fnVars
    /\ UNCHANGED search_results

Next == Run \/ Search \/ Filter \/ Write \/ Return

Spec == Init /\ [][Next]_vars

(***************************************************************************)
(* The legacy run, NewsBulletinGenerator.generate_bulletin of app.py, from *)
(* its first search on: the date range has been parsed.  It searches with  *)
(* the domains, searches again without them when that gave fewer than 5    *)
(* results, and hands what it holds to the language model.                 *)
(***************************************************************************)
MaxFound == 6

\* the responses of the client, told apart by their number of results
Found(k) ==
    [has_results |-> TRUE,
     results |-> [i \in 1..k |->
                     Raw(Str("GPT update"), Str("https://techcrunch.com/a"),
                         Str("in window"), Str("2025-08-25"))]]

LegacyReplies ==
    {[raised |-> TRUE, response |-> PyNone],
     [raised |-> FALSE, response |-> PyNone],
     [raised |-> FALSE, response |-> [has_results |-> FALSE, results |-> <<>>]]}
    \cup {[raised |-> FALSE, response |-> Found(k)] : k \in 0..MaxFound}

\* search_ai_news: the response, None when the client raised
search_ai_news(reply) == IF reply.raised THEN PyNone ELSE reply.response

\* search_results.get('results', [])
ResultsIn(results) == IF results.has_results THEN results.results ELSE <<>>

\* not search_results or len(search_results.get('results', [])) < 5
TooFew(results) == results = PyNone \/ Len(ResultsIn(results)) < 5

LegacyInit ==
    /\ pc = "legacy"
    /\ end_date_str = ""
    /\ date_range = create_last_n_days(Naive(Ymd2Ord(2025, 8, 31), 0), 7).val
    /\ domains \in DomainLists
    /\ search_calls = <<>>
    /\ search_replies = <<>>
    /\ articles = <<>>
    /\ filtered_articles = <<>>
    /\ writer_calls = <<>>
    /\ llm_calls = 0
    /\ llm_replies = <<>>
    /\ bulletin = PyNone
    /\ error = ""
    /\ search_results = PyNone
    /\ NoFn

\* the first search_ai_news call and the test that follows it
LegacySearch ==
    /\ pc = "legacy"
    /\ \E reply \in LegacyReplies :
         /\ search_calls' = Append(search_calls, ClientCall(date_range, domains))
         /\ search_replies' = Append(search_replies, reply)
         /\ search_results' = search_ai_news(reply)
         /\ pc' = IF TooFew(search_ai_news(reply)) THEN "retry" ELSE "found"
    /\ UNCHANGED <<end_date_str, date_range, domains, articles, filtered_articles,
                   writer_calls, llm_calls, llm_replies, bulletin, error>>
    /\ UNCHANGED fnVars

\* the second search_ai_news call, with include_domains=None
LegacyRetry ==
    /\ pc = "retry"
    /\ \E reply \in LegacyReplies :
         /\ search_calls' = Append(search_calls, ClientCall(date_range, <<>>))
         /\ search_replies' = Append(search_replies, reply)
         /\ search_results' = search_ai_news(reply)
    /\ pc' = "found"
    /\ UNCHANGED <<end_date_str, date_range, domains, articles, filtered_articles,
                   writer_calls, llm_calls, llm_replies, bulletin, error>>
    /\ UNCHANGED fnVars

\* the rest of generate_bulletin: "Haberler aranamadi." when it holds no
\* response, else create_bulletin_with_gpt4o over all the results
LegacyWrite ==
    /\ pc = "found"
    /\ IF search_results = PyNone
       THEN /\ llm_calls' = llm_calls
            /\ llm_replies' = llm_replies
            /\ bulletin' = [content |-> "Haberler aranamadi."]
       ELSE /\ llm_calls' = llm_calls + 1
            /\ \E reply \in Completions :
                 /\ llm_replies' = Append(llm_replies, reply)
                 /\ bulletin' = [content |-> Written(reply)]
    /\ pc' = "done"
    /\ UNCHANGED <<end_date_str, date_range, domains, search_calls,
                   search_replies, articles, filtered_articles, writer_calls,
                   error, search_results>>
    /\ UNCHANGED fnVars

LegacyNext == LegacySearch \/ LegacyRetry \/ LegacyWrite

LegacySpec == LegacyInit /\ [][LegacyNext]_vars

(***************************************************************************)
(* Single calls of the pure functions, on inputs drawn from bounded sets.  *)
(***************************************************************************)
MaxDaysTried == 32

FirstDay == Ymd2Ord(2025, 8, 1)

\* start and end arguments of DateRange(start, end)
RangeStarts == {Naive(FirstDay, 0), Naive(FirstDay, 43200), Aware(FirstDay, 0, 0)}
RangeEnds ==
    {Naive(FirstDay + k, sec) : k \in (0 - 1)..MaxDaysTried, sec \in {0, 43200, 86399}}
    \cup {Aware(FirstDay + k, 0, 10800) : k \in (0 - 1)..MaxDaysTried}

\* end_date and days arguments of create_last_n_days
LookbackEnds ==
    {Naive(FirstDay, 0), Naive(Ymd2Ord(2025, 3, 1), 43200),
     Naive(Ymd2Ord(2024, 3, 10), 86399), Aware(Ymd2Ord(2025, 1, 5), 3600, 10800)}
Lookbacks == (0 - 1)..MaxDaysTried

\* c * n
Twice(s) == s \o s

RECURSIVE Fill(_, _)
Fill(c, n) ==
    IF n = 0 THEN ""
    ELSE IF n % 2 = 1 THEN c \o Fill(c, n - 1)
    ELSE Twice(Fill(c, n \div 2))

\* titles, urls, contents and published dates of a raw result
RawTitles ==
    {Str("GPT launch"), Str("  Padded title \n"), Str(""), Str(" \t"),
     PyNone, Missing, PyInt(7)}
RawUrls ==
    {Str("https://www.techcrunch.com/a"), Str("http://wired.com"),
     Str(" https://a.www.b.com/x?q#f "), Str(""), Str("   "),
     Str("ftp://files.com/x"), Str("wired.com/a"), Str("http://"),
     Str("http:///p"), Str("http:// a.com/x"), Str("http://[::1"),
     Str("HTTP://A.com"), PyNone, Missing}
RawContents ==
    {Str("funding round"), Str(" padded "), Str(""), Str("  "), PyNone, Missing}
LongContents ==
    {Str(Fill("a", SummaryMax)), Str(Fill("a", SummaryMax) \o "b"),
     Str(" " \o Fill("a", SummaryMax - 1) \o " bc ")}
RawDates ==
    {Missing, PyNone, Str(""), Str("2025-08-25"), Str("2025-08-25T12:00:00Z"),
     Str("2025-08-25T12:00:00+03:00"), Str("yesterday"), PyInt(20250825), PyInt(0)}

\* title and content arguments of _categorize_article
CatTitles ==
    {"", "GPT", "AI mod", "New FUNDING", "a vs b", "Art", "Bias study", "hello",
     "Synthesis", "Academic", "ethic"}
CatContents ==
    {"", "el updates", "funding", "paper on safety", "rival battle", "music",
     "nothing here", "Claude raises capital", "s of war", "REGULATION"}

\* the article and the bounds of article.is_in_date_range(start, end)
Published ==
    {PyNone, Naive(FirstDay + 5, 0), Naive(FirstDay + 5, 43200),
     Aware(FirstDay + 5, 43200, 0), Aware(FirstDay + 5, 3600, 10800)}
Bounds ==
    {Naive(FirstDay + 5, 0), Naive(FirstDay + 5, 43200), Naive(FirstDay + 5, 43201),
     Naive(FirstDay + 4, 86399), Naive(FirstDay + 12, 0),
     Aware(FirstDay + 5, 43200, 0), Aware(FirstDay + 4, 79200, 0),
     Aware(FirstDay + 5, 54000, 10800), Aware(FirstDay + 12, 0, 0)}
ArticleAt(t) ==
    [title |-> "GPT launch", source |-> "wired.com", url |-> "http://wired.com",
     summary |-> "funding round", category |-> "Model Release",
     published_date |-> t]

\* end_date_str arguments of parse_from_turkish_date: a day, a month name
\* of the table and a year, and texts that are not of that form
DayTexts == {"1", "01", "9", "15", "28", "29", "30", "31"}
YearTexts == {"2024", "2025"}
DateText(d, m, y) == d \o " " \o turkish_months[m][1] \o " " \o y
OtherDateTexts ==
    {"31 August 2025", "31 a?ustos 2025", "31 Agustos 2025", "31.08.2025",
     "2025-08-31", "32 Ocak 2025", "31 Ocak 25", "31 Ocak 2025 ", "Ocak 2025",
     "yesterday", " 1 Mart 2025", "1  Mart\t2025"}
ParseLookbacks == {0 - 1, 0, 1, 2, 7, 28, 29, 30, 31}
DateTexts ==
    {DateText(d, m, y) : d \in DayTexts, m \in 1..12, y \in YearTexts}
    \cup OtherDateTexts

\* value arguments of Domain(value)
DomainValues ==
    {"", " ", "\t", " \n ", "wired.com", "openai.com/blog", "wired .com",
     " wired.com", "wired.com ", "a\tb.com", "a.com\n", "\twired.com"}

FnArgs ==
    [DateRange |-> RangeStarts \X RangeEnds,
     Domain |-> {<<v>> : v \in DomainValues},
     parse_from_turkish_date |-> DateTexts \X ParseLookbacks,
     is_in_date_range |-> {ArticleAt(t) : t \in Published} \X Bounds \X Bounds,
     create_last_n_days |-> LookbackEnds \X Lookbacks,
     _map_to_entity |->
         {<<Raw(t, u, c, d)>> :
             t \in RawTitles, u \in RawUrls, c \in RawContents, d \in RawDates}
         \cup {<<Raw(Str("GPT launch"), u, c, d)>> :
                 u \in {Str("http://wired.com"), Str("ftp://files.com/x")},
                 c \in LongContents, d \in {Missing, Str("2025-08-25")}},
     _categorize_article |-> CatTitles \X CatContents]

NoRun ==
    /\ end_date_str = ""
    /\ date_range = PyNone /\ domains = <<>>
    /\ search_calls = <<>> /\ search_replies = <<>>
    /\ articles = <<>> /\ filtered_articles = <<>> /\ writer_calls = <<>>
    /\ llm_calls = 0 /\ llm_replies = <<>> /\ bulletin = PyNone /\ error = ""
    /\ search_results = PyNone

FnInit ==
    /\ pc = "call"
    /\ op \in DOMAIN FnArgs
    /\ arg \in FnArgs[op]
    /\ ret = <<>>
    /\ NoRun

Returns(name, value) ==
    /\ pc = "call" /\ op = name
    /\ ret' = value
    /\ pc' = "returned"
    /\ UNCHANGED <<op, arg>>
    /\ UNCHANGED <<end_date_str, date_range, domains, search_calls,
                   search_replies, articles, filtered_articles, writer_calls,
                   llm_calls, llm_replies, bulletin, error, search_results>>

CallDateRange == Returns("DateRange", DateRange(arg[1], arg[2]))

CallCreateLastNDays ==
    Returns("create_last_n_days", create_last_n_days(arg[1], arg[2]))

CallMapToEntity == Returns("_map_to_entity", _map_to_entity(arg[1]))

CallCategorize ==
    Returns("_categorize_article", _categorize_article(arg[1], arg[2]))

CallIsInDateRange ==
    Returns("is_in_date_range", is_in_date_range(arg[1], arg[2], arg[3]))

CallParseFromTurkishDate ==
    Returns("parse_from_turkish_date", parse_from_turkish_date(arg[1], arg[2]))

CallDomain == Returns("Domain", Domain(arg[1]))

FnNext ==
    \/ CallDateRange
    \/ CallDomain
    \/ CallParseFromTurkishDate
    \/ CallCreateLastNDays
    \/ CallMapToEntity
    \/ CallCategorize
    \/ CallIsInDateRange

FnSpec == FnInit /\ [][FnNext]_vars

(***************************************************************************)
(* Properties of a bulletin run (Spec)                                     *)
(***************************************************************************)
\* seconds from a to b on the UTC line
SecondsFromTo(a, b) ==
    (b.ord - a.ord) * SecondsPerDay + (b.sec - b.off) - (a.sec - a.off)

Dated(a) == a.published_date # PyNone

InWindow(a, dr) ==
    /\ Dated(a)
    /\ SecondsFromTo(dr.start_date, a.published_date) >= 0
    /\ SecondsFromTo(a.published_date, dr.end_date) >= 0

\* h is the elements of as at the indexes idx, in increasing index order
IsSelection(h, as, idx) ==
    /\ Len(h) = Cardinality(idx)
    /\ \E f \in [1..Len(h) -> idx] :
         /\ \A j, k \in 1..Len(h) : j < k => f[j] < f[k]
         /\ \A k \in 1..Len(h) : h[k] = as[f[k]]

Handed == pc \in {"written", "done"}

\* C1: the list handed to the writer is exactly the mapped records with a
\* publish date inside [start, end], in the order the search returned them; a
\* record without a publish date is never handed over.
C1_HandedIsWindowSubsequence ==
    Handed =>
        /\ Len(writer_calls) = 1
        /\ IsSelection(writer_calls[1], articles,
                       {i \in 1..Len(articles) : InWindow(articles[i], date_range)})
        /\ \A k \in 1..Len(writer_calls[1]) : Dated(writer_calls[1][k])

C1_Witness ==
    /\ pc = "done"
    /\ Len(articles) = 2
    /\ Len(writer_calls[1]) = 1
    /\ \E i \in 1..2 : ~Dated(articles[i])

ResultsOf(reply) ==
    IF reply.raised \/ reply.response = PyNone THEN <<>> ELSE reply.response.results

FewOrFailed(reply) == reply.raised \/ Len(ResultsOf(reply)) < 5

\* C2: with domains supplied and a first search that fails or returns fewer
\* than 5 results, exactly one more search is made, without domain
\* restriction, and the articles are those of the second response.
C2_RetriesOnceUnrestricted ==
    (pc # "start" /\ domains # <<>> /\ FewOrFailed(search_replies[1])) =>
        /\ Len(search_calls) = 2
        /\ search_calls[2].include_domains = PyNone
        /\ pc # "failed" => Ok(articles) = search(search_replies[2])

\* C3: the search-unavailable error leaves the run exactly when the client
\* failed on the first attempt and on the retry.
C3_FailsOnlyWhenBothAttemptsFail ==
    (error = "RepositoryException") <=>
        /\ Len(search_replies) = 2
        /\ search_replies[1].raised
        /\ search_replies[2].raised

\* C4: when the client returned a response, no shape of a result in it makes
\* the search fail: mapping failures only drop the result.
C4_MappingNeverFailsTheSearch ==
    (pc = "failed" /\ error = "RepositoryException") =>
        search_replies[Len(search_replies)].raised

Count(h, u) == Cardinality({i \in 1..Len(h) : h[i].url = u})

\* C7 as stated: no two records handed to the writer have the same url.
C7_NoDuplicateUrls ==
    Handed =>
        \A i, j \in 1..Len(writer_calls[1]) :
            i # j => writer_calls[1][i].url # writer_calls[1][j].url

IsRecordOf(mapped, dr, u) ==
    /\ mapped.ok
    /\ mapped.val.url = u
    /\ InWindow(mapped.val, dr)

\* raw carries the url u and maps to a record with u and a date in the window
MapsInto(raw, dr, u) ==
    /\ raw.url.k = "str"
    /\ Strip(raw.url.v) = u
    /\ IsRecordOf(_map_to_entity(raw), dr, u)

UsedResults == ResultsOf(search_replies[Len(search_replies)])

\* C7 amended: nothing is de-duplicated; a url is handed to the writer once
\* for every result of the response that maps to a record with that url and a
\* publish date in the window.
C7_OneRecordPerResult ==
    Handed =>
        \A n \in 1..Len(UsedResults) :
            UsedResults[n].url.k = "str" =>
                Count(writer_calls[1], Strip(UsedResults[n].url.v))
                    = Cardinality({i \in 1..Len(UsedResults) :
                         MapsInto(UsedResults[i], date_range,
                                  Strip(UsedResults[n].url.v))})

C7_Witness ==
    /\ pc = "done"
    /\ Len(writer_calls[1]) >= 2
    /\ writer_calls[1][1].url = writer_calls[1][2].url

(***************************************************************************)
(* Properties of the single functions (FnSpec)                             *)
(***************************************************************************)
Returned(name) == pc = "returned" /\ op = name

\* result.get(key, '') of a field that is a str or absent
TextOf(v) == IF v.k = "str" THEN v.v ELSE ""

AllText(raw) ==
    /\ raw.title.k \in {"str", "missing"}
    /\ raw.url.k \in {"str", "missing"}
    /\ raw.content.k \in {"str", "missing"}

IsHttp(u) ==
    \/ Len(u) >= 7 /\ SubSeq(u, 1, 7) = "http://"
    \/ Len(u) >= 8 /\ SubSeq(u, 1, 8) = "https://"

Discarded == ret = Raise("ValueError")

RejectsTitleAndUrl(raw) ==
    /\ Strip(TextOf(raw.title)) = "" => Discarded
    /\ Strip(TextOf(raw.url)) = "" => Discarded
    /\ ~IsHttp(Strip(TextOf(raw.url))) => Discarded

Trimmed(s) == s # "" /\ Strip(s) = s

\* C6: every record built has title, source, url and summary non-empty and
\* without leading or trailing whitespace, and an http(s) url.
C6_RecordsTrimmed ==
    (Returned("_map_to_entity") /\ ret.ok) =>
        /\ Trimmed(ret.val.title)
        /\ Trimmed(ret.val.source)
        /\ Trimmed(ret.val.url)
        /\ Trimmed(ret.val.summary)
        /\ IsHttp(ret.val.url)

Priority ==
    << <<"Model Release", ModelReleaseKeywords>>,
       <<"Investment / Government Policy", InvestmentKeywords>>,
       <<"Research / Benchmark", ResearchKeywords>>,
       <<"Ethics / Societal Impact", EthicsKeywords>>,
       <<"Competitive Dynamics", CompetitiveKeywords>>,
       <<"Creative Application", CreativeKeywords>> >>

Matches(text, i) ==
    \E k \in 1..Len(Priority[i][2]) : Contains(text, Priority[i][2][k])

\* the category is the first in priority order with a keyword in text,
\* General when there is none
FirstMatch(text, category) ==
    /\ \A i \in 1..Len(Priority) :
         category = Priority[i][1]
            <=> (Matches(text, i) /\ \A j \in 1..(i - 1) : ~Matches(text, j))
    /\ category = "General" <=> \A i \in 1..Len(Priority) : ~Matches(text, i)

\* C8 as stated: the category is the first match over the lower-cased
\* title+content.
C8_FirstMatchOverConcatenation ==
    Returned("_categorize_article") => FirstMatch(Lower(arg[1] \o arg[2]), ret)

\* C8 amended: the category is the first match over the lower-cased title,
\* one space, content; text with both "gpt" and "funding" is Model Release.
C8_FirstMatchOverSpacedText ==
    Returned("_categorize_article") =>
        /\ FirstMatch(Lower(arg[1] \o " " \o arg[2]), ret)
        /\ (Contains(Lower(arg[1] \o " " \o arg[2]), "gpt")
            /\ Contains(Lower(arg[1] \o " " \o arg[2]), "funding"))
               => ret = "Model Release"

C8_Witness ==
    /\ Returned("_categorize_article")
    /\ arg = <<"GPT", "funding">>
    /\ ret = "Model Release"

C10_RangeWithin30Days ==
    (Returned("DateRange") /\ ret.ok) =>
        /\ SecondsFromTo(arg[1], arg[2]) > 0
        /\ SecondsFromTo(arg[1], arg[2]) <= 30 * SecondsPerDay

\* C11: for an article with a published date, is_in_date_range returns True
\* exactly when start <= published date <= end, both ends included.
C11_ClosedInterval ==
    (Returned("is_in_date_range") /\ Dated(arg[1])) =>
        ((ret.ok /\ ret.val) <=>
            /\ SecondsFromTo(arg[2], arg[1].published_date) >= 0
            /\ SecondsFromTo(arg[1].published_date, arg[3]) >= 0)

\* the same over timestamps that Python can compare
C11_ClosedIntervalComparable ==
    (/\ Returned("is_in_date_range") /\ Dated(arg[1])
     /\ arg[2].aware = arg[1].published_date.aware
     /\ arg[3].aware = arg[1].published_date.aware) =>
        /\ ret.ok
        /\ ret.val <=>
            /\ SecondsFromTo(arg[2], arg[1].published_date) >= 0
            /\ SecondsFromTo(arg[1].published_date, arg[3]) >= 0

\* the content of a raw result after result.get('content', '').strip()
TrimmedContent(raw) == Strip(TextOf(raw.content))

\* the first n characters of s, all of s when it has no more
FirstChars(s, n) == IF Len(s) <= n THEN s ELSE SubSeq(s, 1, n)

ShownStart(shown) == Strptime(UpTo(shown, Find(shown, " - ")))
ShownEnd(shown) == Strptime(From(shown, Find(shown, " - ") + 3))

\* a day text with two digits
TwoDigits(d) == IF Len(d) = 1 THEN "0" \o d ELSE d

RoundTrips(shown, d, m, y, days) ==
    /\ ShownEnd(shown) = Ok(Naive(Ymd2Ord(ToInt(y), m, ToInt(d)), 0))
    /\ ShownStart(shown) = Ok(Naive(Ymd2Ord(ToInt(y), m, ToInt(d)) - days, 0))
    /\ From(shown, Find(shown, " - ") + 3)
           = TwoDigits(d) \o " " \o MonthNames[m] \o " " \o y

\* C13: for a valid day, a month name of the table, a year and a lookback
\* in 1..30, the range parse_from_turkish_date returns is displayed as the
\* typed date and the date lookback days before it.
C13_DisplayRoundTrip ==
    Returned("parse_from_turkish_date") =>
        \A d \in DayTexts, m \in 1..12, y \in YearTexts :
            (/\ arg[2] \in 1..30
             /\ arg[1] = DateText(d, m, y)
             /\ ToInt(d) <= DaysInMonth(ToInt(y), m)) =>
                /\ ret.ok
                /\ RoundTrips(format_for_display(ret.val), d, m, y, arg[2])

C13_Witness ==
    /\ Returned("parse_from_turkish_date")
    /\ arg = <<"01 Mart 2025", 7>>
    /\ ret.ok
    /\ format_for_display(ret.val) = "22 February 2025 - 01 March 2025"

(***************************************************************************)
(* Properties of a bulletin run, continued (Spec)                          *)
(***************************************************************************)
LlmFailed == llm_replies # <<>> /\ llm_replies[Len(llm_replies)].raised

\* C14: when the language model call fails, nothing is raised and the
\* bulletin returned carries the failure text, the number of filtered
\* articles and the dates of the range.
C14_LlmFailureBecomesText ==
    LlmFailed =>
        /\ pc \in {"written", "done"}
        /\ error = ""
        /\ filtered_articles # <<>>
        /\ StartsWith(bulletin.content, FailureText)
        /\ pc = "done" =>
             /\ bulletin.article_count
                  = Cardinality({i \in 1..Len(articles) : InWindow(articles[i], date_range)})
             /\ ShownStart(bulletin.date_range).val.ord = date_range.start_date.ord
             /\ ShownEnd(bulletin.date_range).val.ord = date_range.end_date.ord

C14_Witness ==
    /\ pc = "done"
    /\ LlmFailed
    /\ bulletin.article_count = 2
    /\ bulletin.content = FailureText \o "timeout"

\* C15: when the end date text of a CLI run does not parse, the run ends
\* with the ValueError: no date range is made, and neither the search
\* nor the writer is called.
C15_ParseErrorAborts ==
    (pc # "cli" /\ end_date_str # "" /\ ~_parse_turkish_date(end_date_str).ok) =>
        /\ pc = "failed"
        /\ error = "ValueError"
        /\ date_range = PyNone
        /\ search_calls = <<>>
        /\ writer_calls = <<>>
        /\ llm_calls = 0
        /\ bulletin = PyNone

C15_Witness ==
    /\ pc = "failed"
    /\ end_date_str = "31.08.2025"
    /\ error = "ValueError"

\* C16: once the search has failed with RepositoryException the run is
\* over: the writer is not called and no bulletin is returned.
C16_SearchFailureAborts ==
    (error = "RepositoryException") =>
        /\ pc = "failed"
        /\ writer_calls = <<>>
        /\ llm_calls = 0
        /\ bulletin = PyNone

C16_Witness ==
    /\ pc = "failed"
    /\ error = "RepositoryException"
    /\ search_replies[1].raised

\* the run has filtered the articles and none is left
NoneLeft == pc \in {"filtered", "written", "done"} /\ filtered_articles = <<>>

\* C17: when the search succeeds and no article is left after the date
\* filter, the run raises nothing, calls no language model and returns a
\* bulletin with 0 articles and the no-news text.
C17_EmptyIsNoNews ==
    NoneLeft =>
        /\ error = ""
        /\ llm_calls = 0
        /\ pc = "written" => Contains(bulletin.content, "haber bulunamadi")
        /\ pc = "done" =>
             /\ bulletin.article_count = 0
             /\ Contains(bulletin.content, "haber bulunamadi")
             /\ Contains(bulletin.content, bulletin.date_range)

C17_Witness ==
    /\ pc = "done"
    /\ Len(articles) = 2
    /\ filtered_articles = <<>>
    /\ bulletin.article_count = 0

\* the run is inside execute or has left it
InExecute == pc \in {"searched", "filtered", "written", "done"}
                \/ (pc = "failed" /\ date_range # PyNone)

\* C19: a run of execute calls the search client once or twice and the
\* language model at most once, and the language model only after the last
\* search call has returned without failure.
C19_CallCounts ==
    /\ [](InExecute =>
            /\ Len(search_calls) \in 1..2
            /\ Len(search_replies) = Len(search_calls)
            /\ llm_calls <= 1
            /\ llm_calls > 0 =>
                 /\ ~search_replies[Len(search_replies)].raised
                 /\ search(search_replies[Len(search_replies)]).ok)
    /\ [][llm_calls > 0 => search_calls' = search_calls]_vars

C19_Witness ==
    /\ pc = "done"
    /\ Len(search_calls) = 1
    /\ llm_calls = 1

(***************************************************************************)
(* Properties of the single functions, continued (FnSpec)                  *)
(***************************************************************************)
\* C18: Domain(value) is constructed exactly for the values that are not
\* empty and hold no whitespace character (space, tab, newline).
C18_DomainHasNoWhitespace ==
    Returned("Domain") =>
        (ret.ok <=>
            /\ arg[1] # ""
            /\ \A i \in 1..Len(arg[1]) : CharAt(arg[1], i) \notin Whitespace)

(***************************************************************************)
(* Properties of the legacy run (LegacySpec)                               *)
(***************************************************************************)
\* C20: a second search call is made only when domains were given and the
\* first call failed or gave fewer than 5 results; otherwise the client is
\* called once and the first response is the one used.
C20_SecondCallOnlyWithDomains ==
    /\ Len(search_calls) = 2 =>
         (domains # <<>> /\ FewOrFailed(search_replies[1]))
    /\ (pc \in {"found", "done"}
          /\ (domains = <<>> \/ ~FewOrFailed(search_replies[1]))) =>
         /\ Len(search_calls) = 1
         /\ search_results = search_replies[1].response

\* the host text of an http(s) url: what follows the "//" up to the first
\* of / ? # or the end
HostEnd(rest) ==
    SetMin({i \in 1..Len(rest) : CharAt(rest, i) \in {"/", "?", "#"}}
           \cup {Len(rest) + 1})

HostOfRest(rest) == SubSeq(rest, 1, HostEnd(rest) - 1)

HostOf(u) == HostOfRest(From(u, Find(u, "//") + 2))

\* C21: a result with title, content and an http(s) url whose host is empty
\* is mapped to a record with the source "Unknown Source".
C21_UnknownSourceAccepted ==
    (/\ Returned("_map_to_entity") /\ AllText(arg[1])
     /\ Strip(TextOf(arg[1].title)) # ""
     /\ Strip(TextOf(arg[1].content)) # ""
     /\ IsHttp(Strip(TextOf(arg[1].url)))
     /\ HostOf(Strip(TextOf(arg[1].url))) = "") =>
        /\ ret.ok
        /\ ret.val.source = "Unknown Source"

(***************************************************************************)
(* C22                                                                     *)
(***************************************************************************)
\* the text parses as ISO-8601 once a "Z" stands for "+00:00"
IsIsoText(v) == v.k = "str" /\ FromIsoFormat(Replace(v.v, "Z", "+00:00")).ok

\* a published_date that is present and is not an ISO-8601 text
BadDate(v) == v \notin {Missing, PyNone} /\ ~IsIsoText(v)

WithoutDate(raw) == [raw EXCEPT !.published_date = Missing]

\* C22: a result whose published_date is present but is no ISO-8601 text is
\* mapped exactly as the same result without a published_date is: the call
\* raises nothing more, and the record it returns has published_date None.
C22_BadDateLeftUnset ==
    (Returned("_map_to_entity") /\ BadDate(arg[1].published_date)) =>
        /\ ret = _map_to_entity(WithoutDate(arg[1]))
        /\ ret.ok => ret.val.published_date = PyNone
        /\ (/\ AllText(arg[1])
            /\ Strip(TextOf(arg[1].title)) # ""
            /\ Strip(TextOf(arg[1].content)) # ""
            /\ IsHttp(Strip(TextOf(arg[1].url)))
            /\ HostOf(Strip(TextOf(arg[1].url))) # "") => ret.ok

C22_Witness ==
    /\ Returned("_map_to_entity")
    /\ arg[1].published_date \in {Str("yesterday"), PyInt(20250825)}
    /\ ret.ok
    /\ ret.val.published_date = PyNone


(***************************************************************************)
(* C23                                                                     *)
(***************************************************************************)
\* the window of the run came from parse_from_turkish_date
FromCli == end_date_str # "" /\ date_range # PyNone

\* a published date that carries a UTC offset ("Z" or "+hh:mm")
HasOffset(a) == Dated(a) /\ a.published_date.aware

\* the run has gone through the filter statement of execute
FilterRan ==
    \/ pc \in {"filtered", "written", "done"}
    \/ pc = "failed" /\ articles # <<>>

\* C23: in a run whose window came from parse_from_turkish_date, the filter
\* statement raises nothing when an article's published date carries a UTC
\* offset, and keeps such an article exactly when its date is in the window.
C23_OffsetDatesFiltered ==
    (FromCli /\ FilterRan
        /\ \E i \in 1..Len(articles) : HasOffset(articles[i])) =>
        /\ pc # "failed"
        /\ \A i \in 1..Len(articles) :
             HasOffset(articles[i]) =>
                 ((\E j \in 1..Len(filtered_articles) :
                      filtered_articles[j] = articles[i])
                  <=> InWindow(articles[i], date_range))


(***************************************************************************)
(* C24                                                                     *)
(***************************************************************************)
\* the host without a "www." it starts with
WithoutLeadingWww(host) ==
    IF StartsWith(host, "www.") THEN From(host, Len("www.")) ELSE host

\* a host urlparse accepts: no IPv6 bracket without its partner
WellFormedHost(host) == Contains(host, "[") = Contains(host, "]")

\* C24: the source of a record is the host of its url without a leading
\* "www."; a "www." elsewhere in the host stays.
C24_OnlyLeadingWwwRemoved ==
    (Returned("_map_to_entity") /\ ret.ok /\ WellFormedHost(HostOf(ret.val.url))) =>
        ret.val.source = WithoutLeadingWww(HostOf(ret.val.url))


(***************************************************************************)
(* C25                                                                     *)
(***************************************************************************)
\* the articles of the search that the date filter lets through
PassedFilter == {i \in 1..Len(articles) : InWindow(articles[i], date_range)}

\* C25: in a returned bulletin article_count is the number of articles the
\* writer was handed, which is the number of mapped articles that passed the
\* date filter and is at most the number of results of the response used;
\* the writer was handed the filtered list.
C25_CountIsFilteredCount ==
    pc = "done" =>
        /\ Len(writer_calls) = 1
        /\ writer_calls[1] = filtered_articles
        /\ bulletin.article_count = Len(writer_calls[1])
        /\ Len(writer_calls[1]) = Cardinality(PassedFilter)
        /\ Len(articles) <= Len(UsedResults)
        /\ bulletin.article_count <= Len(UsedResults)

C25_Witness ==
    /\ pc = "done"
    /\ Len(UsedResults) = 2
    /\ Len(articles) = 2
    /\ bulletin.article_count = 1
    /\ Len(writer_calls[1]) = 1


====
